---- MODULE Spec2Model ----
(***************************************************************************)
(* Model of models/rfregressor_volatility/model.py (RfregressorVolatility-  *)
(* Model) and configs.py (RfregressorConfig).                               *)
(*                                                                         *)
(* A cell of a table is NaN (the empty tuple) or a rational <<num, den>>    *)
(* in lowest terms with den > 0.  Prices are powers of two, so a           *)
(* log-return is an integer multiple of ln 2 and is kept in that unit.      *)
(* A volatility cell <<num, den>> stands for the standard deviation whose   *)
(* square is num/den (in the same unit); it is zero exactly when the        *)
(* deviation is zero.  A table is a record with an index (row labels) and   *)
(* a function from column names to columns (sequences of cells).            *)
(***************************************************************************)
EXTENDS Integers, Sequences, FiniteSets, TLC

VARIABLES config, model, op, data, steps, events, raised, out, locals, lastTrained

vars == <<config, model, op, data, steps, events, raised, out, locals, lastTrained>>

(* ------------------------------ bounds --------------------------------- *)

\* longest bar series handed to train / inference
MaxLen == 16
\* largest argument of forecast
MaxSteps == 3
\* prices are 2^0 .. 2^MaxExp
MaxExp == 2
\* fixed-point denominator of the exponentially weighted mean
EmaScale == 1000

(* ------------------------------ cells ---------------------------------- *)

NaN == <<>>

RECURSIVE GCD(_, _)
GCD(a, b) == IF b = 0 THEN a ELSE GCD(b, a % b)

Abs(x) == IF x < 0 THEN -x ELSE x

\* the rational n/d (d > 0) in lowest terms
Rat(n, d) == LET g == GCD(Abs(n), d) IN <<n \div g, d \div g>>

Num(x) == <<x, 1>>

Zero == Num(0)

RECURSIVE Pow2(_)
Pow2(e) == IF e = 0 THEN 1 ELSE 2 * Pow2(e - 1)

\* np.log on a price 2^e, in units of ln 2
Lg(p) == CHOOSE e \in 0..MaxExp : Pow2(e) = p

Min(a, b) == IF a < b THEN a ELSE b

(* ------------------------- pandas column helpers ----------------------- *)

\* Series.fillna(method='ffill')
FFill(col) ==
    LET RECURSIVE Go(_, _)
        Go(acc, i) ==
            IF i > Len(col) THEN acc
            ELSE Go(Append(acc, IF col[i] # NaN \/ i = 1 THEN col[i] ELSE acc[i - 1]), i + 1)
    IN  Go(<<>>, 1)

\* Series.fillna(method='bfill')
BFill(col) ==
    LET n == Len(col)
        RECURSIVE Go(_, _)
        Go(acc, i) ==
            IF i < 1 THEN acc
            ELSE Go(<<IF col[i] # NaN \/ i = n THEN col[i] ELSE acc[1]>> \o acc, i - 1)
    IN  Go(<<>>, n)

\* a forward shift that moves the rows one place too far
ShiftOneTooFar(col, k) ==
    LET d == IF k > 0 THEN k + 1 ELSE k
    IN  [i \in 1..Len(col) |->
            IF i - d >= 1 /\ i - d <= Len(col) THEN col[i - d] ELSE NaN]

\* Series.shift(k): row t takes the value of row t-k, NaN where there is none
Shift(col, k) ==
    [i \in 1..Len(col) |->
        IF i - k >= 1 /\ i - k <= Len(col) THEN col[i - k] ELSE NaN]

\* np.log(close / close.shift(1))
LogReturns(close) ==
    LET prev == Shift(close, 1)
    IN  [i \in 1..Len(close) |->
            IF close[i] = NaN \/ prev[i] = NaN THEN NaN
            ELSE Num(Lg(close[i][1]) - Lg(prev[i][1]))]

RECURSIVE SumCells(_, _, _)
\* sum of the numerators of the integer cells col[a..b]
SumCells(col, a, b) == IF a > b THEN 0 ELSE col[a][1] + SumCells(col, a + 1, b)

\* Series.rolling(window=win).mean(): NaN until win observations are present
RollingMean(col, win) ==
    [i \in 1..Len(col) |->
        IF i < win \/ \E j \in (i - win + 1)..i : col[j] = NaN THEN NaN
        ELSE Rat(SumCells(col, i - win + 1, i), win)]

\* Series.ewm(span=span, adjust=False).mean(): y[0] = x[0],
\* y[t] = (1 - a) y[t-1] + a x[t] with a = 2 / (span + 1), kept in fixed point
EwmMean(col, span) ==
    LET scaled(c) == c[1] * (EmaScale \div c[2])
        step(prev, x) ==
            IF x = NaN THEN prev
            ELSE IF prev = NaN THEN x
            ELSE Rat((2 * x[1] * EmaScale + (span - 1) * scaled(prev)) \div (span + 1),
                     EmaScale)
        RECURSIVE Go(_, _)
        Go(acc, i) ==
            IF i > Len(col) THEN acc
            ELSE Go(Append(acc, step(IF i = 1 THEN NaN ELSE acc[i - 1], col[i])), i + 1)
    IN  Go(<<>>, 1)

\* Series.std() of the rows lo+1 .. hi (0-based lo:hi): sample deviation
\* (ddof = 1) of the non-missing values, NaN when fewer than two of them
Std(col, lo, hi) ==
    LET idx == {i \in (lo + 1)..hi : col[i] # NaN}
        k   == Cardinality(idx)
        sq  == [i \in 1..Len(col) |-> IF col[i] = NaN THEN NaN ELSE Num(col[i][1] * col[i][1])]
        RECURSIVE Sum(_, _)
        Sum(c, S) == IF S = {} THEN 0
                     ELSE LET i == CHOOSE j \in S : TRUE IN c[i][1] + Sum(c, S \ {i})
        s1  == Sum(col, idx)
        s2  == Sum(sq, idx)
    IN  IF k < 2 THEN NaN ELSE Rat(k * s2 - s1 * s1, k * (k - 1))

(* ------------------------------ tables --------------------------------- *)

EmptyTable == [index |-> <<>>, cols |-> <<>>]

NRows(t) == Len(t.index)

\* the slice [step::step]: the first row of every window is skipped
StridedPositionsSkipFirst(n, step) ==
    LET RECURSIVE Walk(_)
        Walk(pos) == IF pos < 1 \/ pos > n THEN <<>>
                     ELSE <<pos>> \o Walk(pos + step)
    IN  IF step > 0 THEN Walk(1 + step) ELSE Walk(n)

\* DataFrame.iloc[::step] as row positions (1-based) of a table of n rows
StridedPositions(n, step) ==
    LET RECURSIVE Walk(_)
        Walk(pos) == IF pos < 1 \/ pos > n THEN <<>>
                     ELSE <<pos>> \o Walk(pos + step)
    IN  IF step > 0 THEN Walk(1) ELSE Walk(n)

\* the rows of t at the given positions, in that order
TakeRows(t, positions) ==
    [index |-> [k \in 1..Len(positions) |-> t.index[positions[k]]],
     cols  |-> [c \in DOMAIN t.cols |->
                   [k \in 1..Len(positions) |-> t.cols[c][positions[k]]]]]

\* DataFrame.dropna(): the rows with no missing value in any column
DropNa(t) ==
    LET keep(i) == \A c \in DOMAIN t.cols : t.cols[c][i] # NaN
    IN  TakeRows(t, SelectSeq([i \in 1..NRows(t) |-> i], keep))

\* DataFrame.fillna(method='ffill').fillna(method='bfill')
FillGaps(t) ==
    [index |-> t.index, cols |-> [c \in DOMAIN t.cols |-> BFill(FFill(t.cols[c]))]]

\* df[list_of_features]: the named columns, row by row
SelectColumns(t, names) ==
    [index |-> t.index,
     rows  |-> [k \in 1..NRows(t) |-> [j \in 1..Len(names) |-> t.cols[names[j]][k]]]]

\* no fillna at all
FillNaZeroOmitted(X) == X

\* DataFrame.fillna(0) on a feature matrix
FillNaZero(X) ==
    [index |-> X.index,
     rows  |-> [k \in 1..Len(X.rows) |->
                  [j \in 1..Len(X.rows[k]) |->
                      IF X.rows[k][j] = NaN THEN Zero ELSE X.rows[k][j]]]]

(* --------------------------- configuration ----------------------------- *)

\* durations are whole minutes
VolatilityWindows == {-2, 1, 3, 5}

CandleIntervals == {1, 2}

TargetShifts == {3, 5}

\* RfregressorConfig: the attributes the model reads or that name a horizon;
\* the constructor sets '1min', '5min', 5, 5 and a caller may reassign them
Configs ==
    [candle_interval : CandleIntervals, volatility_window : VolatilityWindows,
     n_lags : {5}, target_shift : TargetShifts]

\* int(pd.Timedelta(volatility_window) / pd.Timedelta(candle_interval)):
\* int() truncates toward zero
WindowPoints(cfg) ==
    IF cfg.volatility_window >= 0
    THEN cfg.volatility_window \div cfg.candle_interval
    ELSE -((-cfg.volatility_window) \div cfg.candle_interval)

(* ------------------------ volatility estimator ------------------------- *)

\* the loop with `if end_idx >= len(series): break`
CalculateNonOverlappingVolatilityBreakEarly(series, window_points) ==
    LET n == Len(series)
        log_returns == LogReturns(series)
        RECURSIVE Loop(_, _)
        Loop(volatility, start_idx) ==
            IF start_idx >= n THEN volatility
            ELSE LET end_idx == start_idx + window_points
                     vol     == Std(log_returns, start_idx, end_idx)
                 IN  IF end_idx >= n THEN volatility
                     ELSE Loop([i \in 1..n |->
                                   IF i > start_idx /\ i <= end_idx THEN vol
                                   ELSE volatility[i]], end_idx)
    IN  IF window_points = 0 THEN [raised |-> "ValueError", value |-> <<>>]
        ELSE IF window_points < 0
             THEN [raised |-> "none", value |-> [i \in 1..n |-> NaN]]
             ELSE [raised |-> "none", value |-> Loop([i \in 1..n |-> NaN], 0)]

\* _calculate_non_overlapping_volatility: range(0, len, 0) raises ValueError,
\* a negative step gives an empty range
CalculateNonOverlappingVolatility(series, window_points) ==
    LET n == Len(series)
        log_returns == LogReturns(series)
        RECURSIVE Loop(_, _)
        Loop(volatility, start_idx) ==
            IF start_idx >= n THEN volatility
            ELSE LET end_idx == start_idx + window_points
                     vol     == Std(log_returns, start_idx, end_idx)
                 IN  IF end_idx > n THEN volatility
                     ELSE Loop([i \in 1..n |->
                                   IF i > start_idx /\ i <= end_idx THEN vol
                                   ELSE volatility[i]], end_idx)
    IN  IF window_points = 0 THEN [raised |-> "ValueError", value |-> <<>>]
        ELSE IF window_points < 0
             THEN [raised |-> "none", value |-> [i \in 1..n |-> NaN]]
             ELSE [raised |-> "none", value |-> Loop([i \in 1..n |-> NaN], 0)]

(* --------------------------- feature builder --------------------------- *)

LogReturnLagName(i) == "log_return_t-" \o ToString(i)

VolumeLagName(i) == "volume_t-" \o ToString(i)

\* the names appended by `for i in range(1, 5)`, in order
LagFeatureNames ==
    [k \in 1..8 |-> IF k % 2 = 1 THEN LogReturnLagName((k + 1) \div 2)
                    ELSE VolumeLagName(k \div 2)]

\* _calculate_volatility_features: (df, df_sampled, list_of_features)
CalculateVolatilityFeatures(cfg, input) ==
    LET df0 == FillGaps(input)
        window_points == WindowPoints(cfg)
        close == df0.cols["close"]
        log_returns == LogReturns(close)
        lags == [c \in {LogReturnLagName(i) : i \in 1..4} \cup {VolumeLagName(i) : i \in 1..4} |->
                    LET i == CHOOSE j \in 1..4 : c \in {LogReturnLagName(j), VolumeLagName(j)}
                    IN  IF c = LogReturnLagName(i) THEN Shift(log_returns, i)
                        ELSE Shift(df0.cols["volume"], i)]
        cv == CalculateNonOverlappingVolatility(close, window_points)
        list_of_features == LagFeatureNames \o <<"SMA_10", "EMA_10", "current_volatility">>
        df == [index |-> df0.index,
               cols  |-> df0.cols @@ ("log_returns" :> log_returns) @@ lags
                         @@ ("SMA_10" :> RollingMean(close, 10))
                         @@ ("EMA_10" :> EwmMean(close, 10))
                         @@ ("current_volatility" :> cv.value)
                         @@ ("target_volatility" :> Shift(cv.value, -5))]
    IN  IF cv.raised # "none"
        THEN [raised |-> cv.raised, df |-> EmptyTable, df_sampled |-> EmptyTable,
              list_of_features |-> <<>>]
        ELSE [raised |-> "none", df |-> df,
              df_sampled |-> TakeRows(df, StridedPositions(NRows(df), window_points)),
              list_of_features |-> list_of_features]

\* the feature construction of inference (lines 84-107), before fillna(0)
InferenceFeatures(cfg, input) ==
    LET df0 == FillGaps(input)
        window_points == WindowPoints(cfg)
        close == df0.cols["close"]
        log_returns == LogReturns(close)
        lags == [c \in {LogReturnLagName(i) : i \in 1..4} \cup {VolumeLagName(i) : i \in 1..4} |->
                    LET i == CHOOSE j \in 1..4 : c \in {LogReturnLagName(j), VolumeLagName(j)}
                    IN  IF c = LogReturnLagName(i) THEN Shift(log_returns, i)
                        ELSE Shift(df0.cols["volume"], i)]
        cv == CalculateNonOverlappingVolatility(close, window_points)
        list_of_features == LagFeatureNames
                            \o <<"SMA_10", "EMA_10", "current_volatility", "close">>
        df == [index |-> df0.index,
               cols  |-> df0.cols @@ ("log_returns" :> log_returns) @@ lags
                         @@ ("SMA_10" :> RollingMean(close, 10))
                         @@ ("EMA_10" :> EwmMean(close, 10))
                         @@ ("current_volatility" :> cv.value)]
    IN  IF cv.raised # "none"
        THEN [raised |-> cv.raised, df |-> EmptyTable, list_of_features |-> <<>>]
        ELSE [raised |-> "none", df |-> df, list_of_features |-> list_of_features]

(* ------------------------------ inputs --------------------------------- *)

Patterns == {"flat", "wavy", "gappy", "void"}

\* the bar series of n rows of a pattern: a constant price, an irregular
\* one, the irregular one with gaps in close and volume, and one with no
\* close at all; row i is labelled with the timestamp 100 + i
MkBars(n, p) ==
    LET e(i) == ((i * i) \div 3) % (MaxExp + 1)
        close(i) == CASE p = "flat"  -> Num(1)
                      [] p = "wavy"  -> Num(Pow2(e(i)))
                      [] p = "gappy" -> IF i % 4 = 1 THEN NaN ELSE Num(Pow2(e(i)))
                      [] OTHER       -> NaN
        volume(i) == IF p = "gappy" /\ i % 5 = 0 THEN NaN ELSE Num(10 + i)
    IN  [index |-> [k \in 1..n |-> 100 + (k - 1)],
         cols  |-> [c \in {"close", "volume"} |->
                      [k \in 1..n |-> IF c = "close" THEN close(k - 1) ELSE volume(k - 1)]]]

\* every length of the irregular series, and the two longest of each pattern
Inputs ==
    {MkBars(n, "wavy") : n \in 0..MaxLen}
        \cup {MkBars(n, p) : n \in (MaxLen - 1)..MaxLen, p \in Patterns}

(* ----------------------- the regression estimator ---------------------- *)

EmptyMatrix == [index |-> <<>>, rows |-> <<>>]

\* RandomForestRegressor(...) as constructed: not fitted
Unfitted == [fitted |-> FALSE, X |-> EmptyMatrix, y |-> <<>>]

\* RandomForestRegressor.fit(X, y): input validation rejects zero samples,
\* otherwise the forest is rebuilt from (X, y) alone (warm_start is off)
EstimatorFit(est, X, y) ==
    IF Len(X.rows) = 0 THEN [raised |-> "ValueError", est |-> est]
    ELSE [raised |-> "none", est |-> [fitted |-> TRUE, X |-> X, y |-> y]]

\* RandomForestRegressor.predict(X): one value per row; an unfitted forest
\* and an empty X are rejected.  The forest is opaque: the value stands for
\* an average of training targets and is taken to be the first of them
EstimatorPredict(est, X) ==
    IF ~est.fitted THEN [raised |-> "NotFittedError", value |-> <<>>]
    ELSE IF Len(X.rows) = 0 THEN [raised |-> "ValueError", value |-> <<>>]
    ELSE [raised |-> "none", value |-> [k \in 1..Len(X.rows) |-> est.y[1]]]

(* ------------------------------ operations ----------------------------- *)

\* the local tables of the last call: the enriched table, the sampled table
\* before dropna, the feature names and what is handed to the estimator
NoLocals ==
    [df |-> EmptyTable, df_sampled |-> EmptyTable, list_of_features |-> <<>>,
     X |-> EmptyMatrix, y |-> <<>>]

\* __init__: the configuration is kept, the estimator is constructed unfitted
Init ==
    /\ config \in Configs
    /\ model = Unfitted
    /\ op = "init"
    /\ data = EmptyTable
    /\ steps = 0
    /\ events = <<>>
    /\ raised = "none"
    /\ out = <<>>
    /\ locals = NoLocals
    /\ lastTrained = EmptyTable

\* the rows of train after dropna: (features, target)
TrainingSet(built) ==
    LET df_sampled == DropNa(built.df_sampled)
        list_of_features == built.list_of_features \o <<"close">>
    IN  [list_of_features |-> list_of_features,
         X |-> SelectColumns(df_sampled, list_of_features),
         y |-> df_sampled.cols["target_volatility"]]

\* train with save() called ahead of fit
TrainCallSaveFirst(cfg, est, input) ==
    LET built == CalculateVolatilityFeatures(cfg, input)
        ts    == TrainingSet(built)
        fit   == EstimatorFit(est, ts.X, ts.y)
    IN  IF built.raised # "none"
        THEN [raised |-> built.raised, events |-> <<>>, locals |-> NoLocals, est |-> est]
        ELSE [raised |-> fit.raised,
              events |-> <<"save", "fit">>,
              locals |-> [df |-> built.df, df_sampled |-> built.df_sampled,
                          list_of_features |-> ts.list_of_features,
                          X |-> ts.X, y |-> ts.y],
              est    |-> fit.est]

\* train that fits only an estimator that is not fitted yet
TrainCallKeepFirstFit(cfg, est, input) ==
    LET built == CalculateVolatilityFeatures(cfg, input)
        ts    == TrainingSet(built)
        fit   == EstimatorFit(est, ts.X, ts.y)
    IN  IF built.raised # "none"
        THEN [raised |-> built.raised, events |-> <<>>, locals |-> NoLocals, est |-> est]
        ELSE [raised |-> fit.raised,
              events |-> IF fit.raised # "none" THEN <<"fit">> ELSE <<"fit", "save">>,
              locals |-> [df |-> built.df, df_sampled |-> built.df_sampled,
                          list_of_features |-> ts.list_of_features,
                          X |-> ts.X, y |-> ts.y],
              est    |-> IF est.fitted THEN est ELSE fit.est]

\* the body of train(data) on estimator est: what it raises, the estimator
\* calls it makes in order, its local tables and the estimator it leaves
TrainCall(cfg, est, input) ==
    LET built == CalculateVolatilityFeatures(cfg, input)
        ts    == TrainingSet(built)
        fit   == EstimatorFit(est, ts.X, ts.y)
    IN  IF built.raised # "none"
        THEN [raised |-> built.raised, events |-> <<>>, locals |-> NoLocals, est |-> est]
        ELSE [raised |-> fit.raised,
              events |-> IF fit.raised # "none" THEN <<"fit">> ELSE <<"fit", "save">>,
              locals |-> [df |-> built.df, df_sampled |-> built.df_sampled,
                          list_of_features |-> ts.list_of_features,
                          X |-> ts.X, y |-> ts.y],
              est    |-> fit.est]

\* train(data)
Train(input) ==
    \E r \in {TrainCall(config, model, input)} :
        /\ op' = "train"
        /\ data' = input
        /\ steps' = 0
        /\ out' = <<>>
        /\ raised' = r.raised
        /\ events' = r.events
        /\ locals' = r.locals
        /\ model' = r.est
        /\ lastTrained' = IF r.raised = "none" THEN input ELSE lastTrained
        /\ UNCHANGED config

\* a RangeIndex instead of the index of the features
PredictionTableRangeIndex(features, predictions) ==
    [k \in 1..Len(predictions) |-> [index |-> k - 1, value |-> predictions[k]]]

\* pd.DataFrame({"prediction": predictions}, index=features.index)
PredictionTable(features, predictions) ==
    [k \in 1..Len(predictions) |-> [index |-> features.index[k], value |-> predictions[k]]]

\* the body of inference(input_data) on estimator est
InferenceCall(cfg, est, input) ==
    LET built    == InferenceFeatures(cfg, input)
        features == FillNaZero(SelectColumns(built.df, built.list_of_features))
        pred     == EstimatorPredict(est, features)
    IN  IF built.raised # "none"
        THEN [raised |-> built.raised, events |-> <<>>, locals |-> NoLocals, out |-> <<>>]
        ELSE [raised |-> pred.raised,
              events |-> <<"predict">>,
              locals |-> [df |-> built.df, df_sampled |-> EmptyTable,
                          list_of_features |-> built.list_of_features,
                          X |-> features, y |-> <<>>],
              out    |-> PredictionTable(features, pred.value)]

\* inference(input_data)
Inference(input) ==
    \E r \in {InferenceCall(config, model, input)} :
        /\ op' = "inference"
        /\ data' = input
        /\ steps' = 0
        /\ raised' = r.raised
        /\ events' = r.events
        /\ locals' = r.locals
        /\ out' = r.out
        /\ UNCHANGED <<config, model, lastTrained>>

\* forecast with [0] * (steps + 1)
ForecastOneMore(n) ==
    /\ op' = "forecast"
    /\ data' = EmptyTable
    /\ steps' = n
    /\ events' = <<>>
    /\ raised' = "none"
    /\ locals' = NoLocals
    /\ out' = [k \in 1..(n + 1) |-> [index |-> k - 1, value |-> Zero]]
    /\ UNCHANGED <<config, model, lastTrained>>

\* forecast(steps): pd.DataFrame({"forecast": [0] * steps}), a RangeIndex
Forecast(n) ==
    /\ op' = "forecast"
    /\ data' = EmptyTable
    /\ steps' = n
    /\ events' = <<>>
    /\ raised' = "none"
    /\ locals' = NoLocals
    /\ out' = [k \in 1..n |-> [index |-> k - 1, value |-> Zero]]
    /\ UNCHANGED <<config, model, lastTrained>>

Next ==
    \/ \E input \in Inputs : Train(input)
    \/ \E input \in Inputs : Inference(input)
    \/ \E n \in 0..MaxSteps : Forecast(n)

Spec == Init /\ [][Next]_vars

(* ------------------------------- claims -------------------------------- *)

\* the last call was train and its feature builder returned
TrainBuilt == op = "train" /\ WindowPoints(config) # 0

\* the last call was inference and its feature builder returned
InferenceBuilt == op = "inference" /\ WindowPoints(config) # 0

\* C1: under a valid window, a train call with fewer bars than window_points,
\* or one whose sampled table has no row left after dropna, fails with
\* InsufficientData before fit is invoked, and never calls save
C1_InsufficientDataBeforeFit ==
    (/\ TrainBuilt
     /\ WindowPoints(config) >= 1
     /\ (NRows(data) < WindowPoints(config) \/ Len(locals.X.rows) = 0))
        => (raised = "InsufficientData" /\ events = <<>>)

\* C2: the volatility column has one entry per row; every complete block of
\* w rows holds the deviation of the log-returns of that block in all its
\* positions, and every row of the trailing partial block is missing (so a
\* series shorter than w gives an all-missing column)
C2_NonOverlappingVolatility ==
    ((TrainBuilt \/ InferenceBuilt) /\ WindowPoints(config) >= 1) =>
        LET w  == WindowPoints(config)
            n  == NRows(data)
            lr == LogReturns(locals.df.cols["close"])
            cv == locals.df.cols["current_volatility"]
        IN  /\ Len(cv) = n
            /\ \A k \in 0..(n \div w) :
                  \A i \in (k * w + 1)..Min(k * w + w, n) :
                      cv[i] = IF k * w + w <= n THEN Std(lr, k * w, k * w + w) ELSE NaN

\* a series with several complete blocks holding different deviations and a
\* trailing partial block
C2_Witness ==
    /\ TrainBuilt
    /\ WindowPoints(config) = 3
    /\ NRows(data) = 16
    /\ locals.df.cols["current_volatility"][1] # NaN
    /\ locals.df.cols["current_volatility"][4] # NaN
    /\ locals.df.cols["current_volatility"][1] # locals.df.cols["current_volatility"][4]
    /\ locals.df.cols["current_volatility"][16] = NaN

\* C3: an inference call that returns gives one prediction per input row, the
\* k-th carrying the index of the k-th input row
C3_OnePredictionPerRow ==
    (op = "inference" /\ raised = "none") =>
        /\ Len(out) = NRows(data)
        /\ \A k \in 1..Len(out) : out[k].index = data.index[k]

\* inference returned on a series of several windows
C3_Witness ==
    /\ op = "inference"
    /\ raised = "none"
    /\ WindowPoints(config) >= 2
    /\ NRows(data) > 2 * WindowPoints(config)
    /\ Len(out) = NRows(data)

\* C4: a forecast call returns exactly `steps` zeros, makes no estimator call
\* and leaves the estimator as it was, whatever the state it is made in
C4_ForecastZeros ==
    [][op' = "forecast" =>
          /\ Len(out') = steps'
          /\ \A k \in 1..Len(out') : out'[k].value = Zero
          /\ events' = <<>>
          /\ raised' = "none"
          /\ model' = model
          /\ lastTrained' = lastTrained]_vars

\* forecast(3) answered on a trained estimator
C4_Witness ==
    /\ op = "forecast"
    /\ steps = 3
    /\ model.fitted
    /\ out = <<[index |-> 0, value |-> Zero], [index |-> 1, value |-> Zero],
               [index |-> 2, value |-> Zero]>>

\* C5: a train call that returns has called save exactly once, as its last
\* estimator call and after fit; a train call that fails has not called save
C5_SaveOnceAfterFit ==
    op = "train" =>
        LET saves == {i \in 1..Len(events) : events[i] = "save"}
        IN  IF raised = "none"
            THEN /\ Cardinality(saves) = 1
                 /\ events[Len(events)] = "save"
                 /\ \E i \in 1..Len(events) : events[i] = "fit" /\ \A j \in saves : i < j
            ELSE saves = {}

\* a train call that fitted and saved
C5_Witness == op = "train" /\ raised = "none" /\ events = <<"fit", "save">>

\* C6: the estimator is unfitted while no train call has completed, and
\* otherwise is the fit a fresh estimator gets from the data of the most
\* recent completed train call alone
C6_FitOfLastCompletedTrain ==
    model = IF lastTrained = EmptyTable THEN Unfitted
            ELSE TrainCall(config, Unfitted, lastTrained).est

\* a train call that failed on an estimator an earlier train call had fitted
C6_Witness ==
    /\ op = "train"
    /\ raised # "none"
    /\ model.fitted
    /\ lastTrained # data

\* C7: with floor(volatility_window / candle_interval) < 1, train and inference
\* fail before any estimator call and produce no prediction
C7_InvalidConfigurationFailsFast ==
    (op \in {"train", "inference"} /\ config.volatility_window \div config.candle_interval < 1)
        => (raised # "none" /\ events = <<>> /\ out = <<>>)

\* C8: every feature value handed to predict is present: it is zero where
\* feature building left the value missing and the built value elsewhere
C8_InferenceFeaturesFilled ==
    (op = "inference" /\ events = <<"predict">>) =>
        LET raw == SelectColumns(locals.df, locals.list_of_features)
        IN  /\ Len(locals.X.rows) = NRows(data)
            /\ \A k \in 1..Len(locals.X.rows) :
                  /\ Len(locals.X.rows[k]) = Len(locals.list_of_features)
                  /\ \A j \in 1..Len(locals.list_of_features) :
                        /\ locals.X.rows[k][j] # NaN
                        /\ locals.X.rows[k][j] =
                              IF raw.rows[k][j] = NaN THEN Zero ELSE raw.rows[k][j]

\* predict was handed a series whose lag columns, SMA_10 and trailing
\* current_volatility had missing values, and whose later rows had none
C8_Witness ==
    /\ op = "inference"
    /\ events = <<"predict">>
    /\ WindowPoints(config) = 3
    /\ NRows(data) = 16
    /\ locals.df.cols["volume_t-2"][2] = NaN
    /\ locals.df.cols["SMA_10"][9] = NaN
    /\ locals.df.cols["SMA_10"][10] # NaN
    /\ locals.df.cols["current_volatility"][16] = NaN
    /\ locals.X.rows[16][11] = Zero
    /\ locals.X.rows[2][4] = Zero
    /\ locals.X.rows[15][11] # Zero

\* C9: with w >= 1 the sampled table of a train call holds the rows at
\* positions 0, w, 2w, ... of the enriched table, ceil(n / w) of them
C9_SamplerKeepsEveryWth ==
    (TrainBuilt /\ WindowPoints(config) >= 1) =>
        LET w == WindowPoints(config)
            n == NRows(data)
            m == (n + w - 1) \div w
        IN  /\ NRows(locals.df) = n
            /\ NRows(locals.df_sampled) = m
            /\ \A k \in 1..m :
                  /\ locals.df_sampled.index[k] = data.index[(k - 1) * w + 1]
                  /\ \A c \in DOMAIN locals.df.cols :
                        locals.df_sampled.cols[c][k] = locals.df.cols[c][(k - 1) * w + 1]

\* a train call on a series that is not a whole number of windows
C9_Witness ==
    /\ TrainBuilt
    /\ WindowPoints(config) = 3
    /\ NRows(data) = 16
    /\ locals.df_sampled.index = <<100, 103, 106, 109, 112, 115>>

\* C10: in the enriched table of a train call, target_volatility at row t is
\* current_volatility at row t + target_shift of the configuration, and is
\* missing when there is no such row
C10_TargetShiftFromConfig ==
    (TrainBuilt /\ WindowPoints(config) >= 1) =>
        LET n  == NRows(data)
            cv == locals.df.cols["current_volatility"]
            tv == locals.df.cols["target_volatility"]
        IN  \A t \in 1..n :
               tv[t] = IF t + config.target_shift <= n THEN cv[t + config.target_shift]
                       ELSE NaN

\* C11: in the enriched table of a train call and of an inference call, for
\* every emitted lag i the column log_return_t-i holds at row t the log-return
\* of row t - i, and is missing where there is no such row; volume_t-i holds
\* the volume of row t - i in the same way
C11_LagColumnsShifted ==
    (TrainBuilt \/ InferenceBuilt) =>
        LET n  == NRows(data)
            lr == locals.df.cols["log_returns"]
            vo == locals.df.cols["volume"]
        IN  \A i \in 1..4 :
               /\ LogReturnLagName(i) \in DOMAIN locals.df.cols
               /\ VolumeLagName(i) \in DOMAIN locals.df.cols
               /\ Len(locals.df.cols[LogReturnLagName(i)]) = n
               /\ Len(locals.df.cols[VolumeLagName(i)]) = n
               /\ \A t \in 1..n :
                     /\ locals.df.cols[LogReturnLagName(i)][t] =
                           IF t - i >= 1 THEN lr[t - i] ELSE NaN
                     /\ locals.df.cols[VolumeLagName(i)][t] =
                           IF t - i >= 1 THEN vo[t - i] ELSE NaN

\* a train call whose lag columns hold missing leading rows and shifted
\* log-returns and volumes after them
C11_Witness ==
    /\ TrainBuilt
    /\ NRows(data) = 16
    /\ locals.df.cols["log_returns"][3] = Num(1)
    /\ locals.df.cols["log_return_t-2"][2] = NaN
    /\ locals.df.cols["log_return_t-2"][5] = Num(1)
    /\ locals.df.cols["volume_t-3"][3] = NaN
    /\ locals.df.cols["volume_t-3"][4] = Num(10)

\* C12: under a valid window, the enriched table of a call holds a log-return
\* lag column and a volume lag column for each lag 1 .. n_lags of the
\* configuration and for no other lag,
\* and the feature names start with those 2 * n_lags lag names, followed by
\* SMA_10, EMA_10 and current_volatility
C12_LagsFromConfig ==
    ((TrainBuilt \/ InferenceBuilt) /\ WindowPoints(config) >= 1) =>
        LET emitted == {c \in DOMAIN locals.df.cols :
                           \E i \in 1..(MaxLen + 1) : c \in {LogReturnLagName(i), VolumeLagName(i)}}
            names   == locals.list_of_features
            m       == 2 * config.n_lags
        IN  /\ emitted = {LogReturnLagName(i) : i \in 1..config.n_lags}
                             \cup {VolumeLagName(i) : i \in 1..config.n_lags}
            /\ Len(names) >= m + 3
            /\ \A i \in 1..config.n_lags :
                  /\ names[2 * i - 1] = LogReturnLagName(i)
                  /\ names[2 * i] = VolumeLagName(i)
            /\ names[m + 1] = "SMA_10"
            /\ names[m + 2] = "EMA_10"
            /\ names[m + 3] = "current_volatility"

====
